---- MODULE Spec2Model ----
(***************************************************************************)
(* State-machine model of the scene/canvas synchronisation in src/App.jsx: *)
(* the React state (scenes, activeScene, edited), the inEdit guard ref,    *)
(* the X6 graph canvas (nodes, edges, undo/redo history), the open         *)
(* confirmation dialog and the save calls awaiting acknowledgement.        *)
(* Every handler runs to completion (single JS thread): one action each.   *)
(***************************************************************************)
EXTENDS Integers, Sequences, FiniteSets, TLC

VARIABLES
    scenes,        \* useImmer([])      : list of known scenes
    activeScene,   \* useImmer(null)    : the active scene, NullScene for null
    edited,        \* useState(0)       : dirty flag (truthiness)
    inEdit,        \* useRef(0)         : guard flag of the bulk rebuild
    nodes,         \* graph.getNodes()  : canvas nodes in insertion order
    edges,         \* canvas edges in insertion order, <<source, target>>
    undoStack,     \* History plugin undo stack (batches of commands)
    redoStack,     \* History plugin redo stack
    dialog,        \* the open antd confirm() dialog and what it captured
    pendingSave,   \* scenes handed to invoke('save_scene') and not yet acknowledged
    puXY,          \* stageToGraphX/Y of the closure held by the on_project_update listener
    nextId,        \* source of fresh position ids (generatePositionId)
    steps,         \* handler runs so far
    limit,         \* handler runs explored in one behaviour
    last           \* observation: the handler that ran last and how it ended

vars == <<scenes, activeScene, edited, inEdit, nodes, edges, undoStack, redoStack,
          dialog, pendingSave, puXY, nextId, steps, limit, last>>

----------------------------------------------------------------------------
(* Bounds of the model *)

MaxIds == 8        \* fresh position ids minted in one behaviour
MaxSteps == 4      \* handler runs in one behaviour
MaxPending == 1    \* save calls in flight
MaxDeep == 8       \* handler runs in one behaviour of SpecSwitch
MaxMid == 5        \* handler runs in one behaviour of SpecCanvas and SpecPos
MaxIdx == 2        \* largest index carried by a position message

(* Program constants *)

StartX == 40
StartY == 40
gridSize == 200
ClientWidth == 640 \* graph.container.clientWidth of the modelled window

----------------------------------------------------------------------------
(* Data *)

StageIds == {"A", "B", "C"}
NoId == "null"

Stage(id, poss) == [id |-> id, positions |-> poss]

GEntry(key, x, y, dest) == [key |-> key, x |-> x, y |-> y, dest |-> dest]

NullScene ==
    [id |-> NoId, name |-> "", root |-> NoId, stages |-> <<>>, positions |-> <<>>,
     graph |-> <<>>, has_warnings |-> FALSE]

Range(s) == {s[i] : i \in 1..Len(s)}

\* Array.prototype.findIndex on a list of records with an id field; 0 for -1
FindIndex(s, id) ==
    IF \E i \in 1..Len(s) : s[i].id = id
    THEN CHOOSE i \in 1..Len(s) : s[i].id = id /\ \A j \in 1..(i-1) : s[j].id # id
    ELSE 0

StageIdsOf(sc) == {sc.stages[i].id : i \in 1..Len(sc.stages)}
NodeIds(ns) == {ns[i].id : i \in 1..Len(ns)}

Node(id, x, y, isStart) == [kind |-> "node", id |-> id, x |-> x, y |-> y,
                            isStart |-> isStart, src |-> NoId, dst |-> NoId]
EdgeCell(s, d) == [kind |-> "edge", id |-> NoId, x |-> 0, y |-> 0,
                   isStart |-> FALSE, src |-> s, dst |-> d]

\* one recorded History command
Cmd(ev, key, before, after) == [ev |-> ev, key |-> key, cell |-> before, cell2 |-> after]

----------------------------------------------------------------------------
(* The canvas (X6 Graph with the History plugin) and the handlers the       *)
(* component registers on it.  A "world" w carries what a synchronous       *)
(* handler can change while it drives the canvas: the cells, the history,   *)
(* the active scene and the dirty flag.                                     *)

World(ns, es, us, rs, sc, ed) ==
    [nodes |-> ns, edges |-> es, undo |-> us, redo |-> rs, scene |-> sc, edited |-> ed]

\* History.addCommand outside undo/redo: push the batch, drop the redo stack
PushCmd(w, batch, rec) ==
    IF rec /\ batch # <<>>
    THEN [w EXCEPT !.undo = Append(@, batch), !.redo = <<>>]
    ELSE w

\* .on("node:removed") : App.jsx 126-135
OnNodeRemoved(w, id, guard) ==
    IF guard THEN w
    ELSE [w EXCEPT !.scene = [@ EXCEPT !.root = IF @ = id THEN NoId ELSE @,
                                       !.stages = SelectSeq(@, LAMBDA st : st.id # id)],
                   !.edited = TRUE]

\* .on("node:added") : App.jsx 136-139
OnNodeAdded(w, guard) ==
    IF guard THEN w ELSE [w EXCEPT !.edited = TRUE]

EdgeCmds(es, ev) == [i \in 1..Len(es) |-> Cmd(ev, "", EdgeCell(es[i][1], es[i][2]),
                                               EdgeCell(es[i][1], es[i][2]))]
NodeCmds(ns, ev) == [i \in 1..Len(ns) |-> Cmd(ev, "", ns[i], ns[i])]

\* node.remove(): the node, then its connected edges, one batch; fires node:removed
RemoveNodeCell(w, id, guard) ==
    LET n    == w.nodes[FindIndex(w.nodes, id)]
        conn == SelectSeq(w.edges, LAMBDA e : e[1] = id \/ e[2] = id)
        w1   == [w EXCEPT !.nodes = SelectSeq(@, LAMBDA m : m.id # id),
                          !.edges = SelectSeq(@, LAMBDA e : e[1] # id /\ e[2] # id)]
    IN  [w |-> OnNodeRemoved(w1, id, guard),
         batch |-> <<Cmd("rem", "", n, n)>> \o EdgeCmds(conn, "rem")]

\* graph.addNode(cell): appends the node; fires node:added
AddNodeCell(w, n, guard) ==
    [w |-> OnNodeAdded([w EXCEPT !.nodes = Append(@, n)], guard),
     batch |-> <<Cmd("add", "", n, n)>>]

\* graph.addEdge({source, target})
AddEdgeCell(w, s, d) ==
    [w |-> [w EXCEPT !.edges = Append(@, <<s, d>>)],
     batch |-> <<Cmd("add", "", EdgeCell(s, d), EdgeCell(s, d))>>]

\* edge.remove() of the first edge s -> d
RemoveOneEdge(es, s, d) ==
    LET i == CHOOSE k \in 1..Len(es) : es[k] = <<s, d>> /\ \A j \in 1..(k-1) : es[j] # <<s, d>>
    IN  SubSeq(es, 1, i-1) \o SubSeq(es, i+1, Len(es))

\* node.prop('isStart', v): a change command when the value changes
SetIsStart(w, id, v) ==
    LET i == FindIndex(w.nodes, id) IN
    IF i = 0 \/ w.nodes[i].isStart = v THEN [w |-> w, batch |-> <<>>]
    ELSE [w |-> [w EXCEPT !.nodes[i].isStart = v],
          batch |-> <<Cmd("chg", "isStart", w.nodes[i], [w.nodes[i] EXCEPT !.isStart = v])>>]

\* graph.clearCells(): model.clear() removes the edges, then the nodes, as one batch
ClearCells(w, guard) ==
    LET RECURSIVE Fire(_, _)
        Fire(x, k) == IF k > Len(w.nodes) THEN x
                      ELSE Fire(OnNodeRemoved(x, w.nodes[k].id, guard), k + 1)
    IN  [w |-> Fire([w EXCEPT !.nodes = <<>>, !.edges = <<>>], 1),
         batch |-> EdgeCmds(w.edges, "rem") \o NodeCmds(w.nodes, "rem")]

\* a primitive applied and recorded as its own command
Do(r) == PushCmd(r.w, r.batch, TRUE)

----------------------------------------------------------------------------
(* Scene activation: App.jsx 367-448 *)

\* addStageToGraph, the cursor step: App.jsx 423-430
NextXY(xy, nonEmpty) ==
    IF ~nonEmpty THEN xy
    ELSE IF xy[1] + gridSize > ClientWidth - gridSize
         THEN <<StartX, xy[2] + gridSize>>
         ELSE <<xy[1] + gridSize, xy[2]>>

\* addStageToGraph(stage): the x and y passed by setActiveScene are not parameters
\* of the function; the node is placed at the cursor.  App.jsx 422-441
AddStageToGraph(w, xy, id, guard) ==
    LET at == NextXY(xy, Len(w.nodes) > 0)
    IN  [w |-> Do(AddNodeCell(w, Node(id, at[1], at[2], FALSE), guard)), xy |-> at]

\* updateNodeProps(stage, node, belongingScene): the props stage, scene and
\* fixedLen are recorded by the History plugin as changes that touch nothing
\* modelled here; isStart is set from the scene's root.  App.jsx 443-448
UpdateNodeProps(w, id, root) ==
    LET i  == FindIndex(w.nodes, id)
        w1 == PushCmd(w, <<Cmd("chg", "props", w.nodes[i], w.nodes[i])>>, TRUE)
    IN  Do(SetIsStart(w1, id, root = id))

\* the loop over Object.entries(newscene.graph): App.jsx 385-389.
\* A key with no stage makes addStageToGraph read stage.id of undefined: it throws.
RECURSIVE AddStages(_, _, _, _)
AddStages(w, xy, sc, k) ==
    IF k > Len(sc.graph) THEN [w |-> w, xy |-> xy, ok |-> TRUE]
    ELSE LET key == sc.graph[k].key IN
         IF FindIndex(sc.stages, key) = 0
         THEN [w |-> w, xy |-> NextXY(xy, Len(w.nodes) > 0), ok |-> FALSE]
         ELSE LET a == AddStageToGraph(w, xy, key, TRUE)
              IN  AddStages(UpdateNodeProps(a.w, key, sc.root), a.xy, sc, k + 1)

\* the edges of one graph entry: targets without a node are skipped. App.jsx 396-407
RECURSIVE AddDests(_, _, _, _)
AddDests(w, src, dest, j) ==
    IF j > Len(dest) THEN w
    ELSE IF dest[j] \in NodeIds(w.nodes)
         THEN AddDests(Do(AddEdgeCell(w, src, dest[j])), src, dest, j + 1)
         ELSE AddDests(w, src, dest, j + 1)

\* the loop adding the edges: App.jsx 390-408
RECURSIVE AddEdges(_, _, _)
AddEdges(w, sc, k) ==
    IF k > Len(sc.graph) THEN w
    ELSE IF sc.graph[k].key \in NodeIds(w.nodes)
         THEN AddEdges(AddDests(w, sc.graph[k].key, sc.graph[k].dest, 1), sc, k + 1)
         ELSE AddEdges(w, sc, k + 1)

\* the body of setActiveScene after the confirmation gate: App.jsx 382-411
Rebuild(w, xy, newscene) ==
    LET w0 == Do(ClearCells(w, TRUE))
        w1 == [w0 EXCEPT !.scene = newscene]
        a  == AddStages(w1, xy, newscene, 1)
    IN  IF a.ok
        THEN [w |-> [AddEdges(a.w, newscene, 1) EXCEPT !.edited = FALSE],
              xy |-> a.xy, ok |-> TRUE, inEdit |-> FALSE]
        ELSE [w |-> a.w, xy |-> a.xy, ok |-> FALSE, inEdit |-> TRUE]

----------------------------------------------------------------------------
(* Inputs: the projects the backend can send, the scene it creates blank *)

SceneS1 ==
    [id |-> "s1", name |-> "n", root |-> "A",
     stages |-> <<Stage("A", <<2>>), Stage("B", <<3>>), Stage("C", <<4>>)>>,
     positions |-> <<1>>,
     graph |-> <<GEntry("A", 100, 300, <<"B">>), GEntry("B", 300, 300, <<>>),
                 GEntry("C", 500, 300, <<>>)>>,
     has_warnings |-> FALSE]

\* a scene one of whose stages has no stored layout yet
SceneS2 ==
    [id |-> "s2", name |-> "n", root |-> "A",
     stages |-> <<Stage("A", <<>>), Stage("B", <<>>)>>,
     positions |-> <<>>,
     graph |-> <<GEntry("A", 100, 300, <<>>)>>,
     has_warnings |-> FALSE]

Projects == { <<>>, <<SceneS1, SceneS2>> }

SceneIds == {"s1", "s2", "s3"}

\* invoke('create_blank_scene'): a fresh id, no stages, no positions
BlankScene(id) == [NullScene EXCEPT !.id = id]

FirstPositionId == 10

----------------------------------------------------------------------------
(* State *)

NoDialog == [kind |-> "none", scene |-> NullScene, id |-> NoId]

Obs(op, ok) == [op |-> op, ok |-> ok]

InitBase ==
    /\ scenes = <<>>
    /\ activeScene = NullScene
    /\ edited = FALSE
    /\ inEdit = FALSE
    /\ nodes = <<>>
    /\ edges = <<>>
    /\ undoStack = <<>>
    /\ redoStack = <<>>
    /\ dialog = NoDialog
    /\ pendingSave = <<>>
    /\ puXY = <<StartX, StartY>>
    /\ nextId = FirstPositionId
    /\ steps = 0
    /\ last = Obs("init", TRUE)

Init == InitBase /\ limit = MaxSteps

HasActive == activeScene.id # NoId
NoModal == dialog.kind = "none"
\* the canvas card is rendered only with an active scene and is covered by an open modal
CanvasUsable == HasActive /\ NoModal

\* every handler run counts against the explored depth
Tick == steps < limit /\ steps' = steps + 1 /\ limit' = limit

W == World(nodes, edges, undoStack, redoStack, activeScene, edited)

Commit(w) ==
    /\ nodes' = w.nodes
    /\ edges' = w.edges
    /\ undoStack' = w.undo
    /\ redoStack' = w.redo
    /\ activeScene' = w.scene
    /\ edited' = w.edited

----------------------------------------------------------------------------
(* Scene switching *)

\* setActiveScene(newscene) called from a handler of the current render:
\* App.jsx 367-412.  gated says whether the closure sees edited > 0.
SetActiveScene(newscene, op) ==
    IF ~inEdit /\ edited
    THEN /\ dialog' = [kind |-> "switch", scene |-> newscene, id |-> newscene.id]
         /\ last' = Obs(op, FALSE)
         /\ UNCHANGED <<scenes, activeScene, edited, inEdit, nodes, edges, undoStack,
                        redoStack, pendingSave, puXY, nextId>>
    ELSE LET r == Rebuild(W, <<StartX, StartY>>, newscene) IN
         /\ Commit(r.w)
         /\ inEdit' = r.inEdit
         /\ last' = Obs("activate", r.ok)
         /\ UNCHANGED <<scenes, dialog, pendingSave, puXY, nextId>>

\* the sider menu entry "Edit" of a scene: App.jsx 559-562
SelectEdit(i) ==
    /\ Tick
    /\ NoModal
    /\ i \in 1..Len(scenes)
    /\ SetActiveScene(scenes[i], "reqSwitch")

\* "New Scene": App.jsx 554-558
SelectAdd(id) ==
    /\ Tick
    /\ NoModal
    /\ id \notin {scenes[i].id : i \in 1..Len(scenes)} \cup {activeScene.id}
    /\ SetActiveScene(BlankScene(id), "reqSwitch")

\* "Continue without saving": onOk sets the guard and re-enters. App.jsx 374-377
SwitchOk ==
    /\ Tick
    /\ dialog.kind = "switch"
    /\ LET r == Rebuild(W, <<StartX, StartY>>, dialog.scene) IN
         /\ Commit(r.w)
         /\ inEdit' = r.inEdit
         /\ last' = Obs("activate", r.ok)
    /\ dialog' = NoDialog
    /\ UNCHANGED <<scenes, pendingSave, puXY, nextId>>

\* onCancel of any confirm(): App.jsx 378, 581
DialogCancel ==
    /\ Tick
    /\ dialog.kind # "none"
    /\ dialog' = NoDialog
    /\ last' = Obs("cancel", TRUE)
    /\ UNCHANGED <<scenes, activeScene, edited, inEdit, nodes, edges, undoStack,
                   redoStack, pendingSave, puXY, nextId>>

OnProjectUpdateGated(scns) ==
    /\ Tick
    /\ scenes' = scns
    /\ IF Len(scns) > 0
       THEN IF edited
            THEN /\ dialog' = [kind |-> "switch", scene |-> scns[1], id |-> scns[1].id]
                 /\ last' = Obs("project", FALSE)
                 /\ UNCHANGED <<activeScene, edited, inEdit, nodes, edges, undoStack,
                                redoStack, puXY>>
            ELSE LET r == Rebuild(W, puXY, scns[1]) IN
                 /\ Commit(r.w)
                 /\ inEdit' = r.inEdit
                 /\ puXY' = r.xy
                 /\ last' = Obs("project", r.ok)
                 /\ dialog' = dialog
       ELSE /\ activeScene' = NullScene
            /\ edited' = FALSE
            /\ last' = Obs("project", TRUE)
            /\ UNCHANGED <<inEdit, nodes, edges, undoStack, redoStack, puXY, dialog>>
    /\ UNCHANGED <<pendingSave, nextId>>

\* the on_project_update listener: its closure was made when edited was 0, so its
\* setActiveScene is never gated, and it keeps its own cursor.  App.jsx 328-345
OnProjectUpdate(scns) ==
    /\ Tick
    /\ scenes' = scns
    /\ IF Len(scns) > 0
       THEN LET r == Rebuild([W EXCEPT !.edited = FALSE], puXY, scns[1]) IN
            /\ Commit(r.w)
            /\ inEdit' = r.inEdit
            /\ puXY' = r.xy
            /\ last' = Obs("project", r.ok)
       ELSE /\ activeScene' = NullScene
            /\ edited' = FALSE
            /\ last' = Obs("project", TRUE)
            /\ UNCHANGED <<inEdit, nodes, edges, undoStack, redoStack, puXY>>
    /\ UNCHANGED <<dialog, pendingSave, nextId>>

----------------------------------------------------------------------------
(* Edits on the canvas *)

MovedXY == <<120, 160>>

\* the user removes a stage node; the app's part is the node:removed handler.
\* App.jsx 126-135
UserRemoveNode(id) ==
    /\ Tick
    /\ CanvasUsable
    /\ id \in NodeIds(nodes)
    /\ Commit(Do(RemoveNodeCell(W, id, inEdit)))
    /\ last' = Obs("removeNode", TRUE)
    /\ UNCHANGED <<scenes, inEdit, dialog, pendingSave, puXY, nextId>>

\* the user draws an edge; connecting: allowLoop false, allowMulti false, and
\* edge:connected marks the scene edited.  App.jsx 97-106, 157-159
UserConnect(s, d) ==
    /\ Tick
    /\ CanvasUsable
    /\ s \in NodeIds(nodes) /\ d \in NodeIds(nodes)
    /\ s # d
    /\ <<s, d>> \notin Range(edges)
    /\ Commit([Do(AddEdgeCell(W, s, d)) EXCEPT !.edited = TRUE])
    /\ last' = Obs("connect", TRUE)
    /\ UNCHANGED <<scenes, inEdit, dialog, pendingSave, puXY, nextId>>

\* edge:contextmenu removes the edge.  App.jsx 152-156
UserRemoveEdge(s, d) ==
    /\ Tick
    /\ CanvasUsable
    /\ <<s, d>> \in Range(edges)
    /\ Commit([PushCmd([W EXCEPT !.edges = RemoveOneEdge(@, s, d)],
                       <<Cmd("rem", "", EdgeCell(s, d), EdgeCell(s, d))>>, TRUE)
               EXCEPT !.edited = TRUE])
    /\ last' = Obs("removeEdge", TRUE)
    /\ UNCHANGED <<scenes, inEdit, dialog, pendingSave, puXY, nextId>>

\* node:moved after a drag.  App.jsx 140-150
UserMove(id) ==
    /\ Tick
    /\ CanvasUsable
    /\ id \in NodeIds(nodes)
    /\ LET i == FindIndex(nodes, id)
           m == [nodes[i] EXCEPT !.x = MovedXY[1], !.y = MovedXY[2]]
       IN  /\ m # nodes[i]
           /\ Commit([PushCmd([W EXCEPT !.nodes[i] = m],
                              <<Cmd("chg", "position", nodes[i], m)>>, TRUE)
                      EXCEPT !.edited = TRUE])
    /\ last' = Obs("move", TRUE)
    /\ UNCHANGED <<scenes, inEdit, dialog, pendingSave, puXY, nextId>>

\* the node:doMarkRoot handler.  App.jsx 161-169
DoMarkRoot(w, id) ==
    LET w1 == Do(SetIsStart(w, w.scene.root, FALSE))
        w2 == Do(SetIsStart(w1, id, TRUE))
    IN  [w2 EXCEPT !.scene.root = id, !.edited = TRUE]

MarkRoot(id) ==
    /\ Tick
    /\ CanvasUsable
    /\ id \in NodeIds(nodes)
    /\ Commit(DoMarkRoot(W, id))
    /\ last' = Obs("markRoot", TRUE)
    /\ UNCHANGED <<scenes, inEdit, dialog, pendingSave, puXY, nextId>>

\* History.revertCommand / applyCommand of one recorded command; the graph events
\* it causes reach the same handlers as a user edit.  App.jsx 731, 741
ApplyCell(w, ev, key, c, guard) ==
    CASE ev = "add" /\ c.kind = "node" ->
            IF c.id \in NodeIds(w.nodes) THEN w ELSE AddNodeCell(w, c, guard).w
      [] ev = "add" /\ c.kind = "edge" -> AddEdgeCell(w, c.src, c.dst).w
      [] ev = "rem" /\ c.kind = "node" ->
            IF c.id \in NodeIds(w.nodes) THEN RemoveNodeCell(w, c.id, guard).w ELSE w
      [] ev = "rem" /\ c.kind = "edge" ->
            IF <<c.src, c.dst>> \in Range(w.edges)
            THEN [w EXCEPT !.edges = RemoveOneEdge(@, c.src, c.dst)] ELSE w
      [] ev = "chg" ->
            LET i == FindIndex(w.nodes, c.id) IN
            IF i = 0 THEN w
            ELSE IF key = "isStart" THEN [w EXCEPT !.nodes[i].isStart = c.isStart]
            ELSE IF key = "position" THEN [w EXCEPT !.nodes[i].x = c.x, !.nodes[i].y = c.y]
            ELSE w

Inverse(ev) == IF ev = "add" THEN "rem" ELSE IF ev = "rem" THEN "add" ELSE ev

RECURSIVE RevertBatch(_, _, _, _)
RevertBatch(w, batch, k, guard) ==
    IF k = 0 THEN w
    ELSE RevertBatch(ApplyCell(w, Inverse(batch[k].ev), batch[k].key, batch[k].cell, guard),
                     batch, k - 1, guard)

RECURSIVE ApplyBatch(_, _, _, _)
ApplyBatch(w, batch, k, guard) ==
    IF k > Len(batch) THEN w
    ELSE ApplyBatch(ApplyCell(w, batch[k].ev, batch[k].key, batch[k].cell2, guard),
                    batch, k + 1, guard)

\* if (graph.canUndo()) graph.undo()   App.jsx 730-732
Undo ==
    /\ Tick
    /\ CanvasUsable
    /\ Len(undoStack) > 0
    /\ LET cmd == undoStack[Len(undoStack)]
           w   == RevertBatch(W, cmd, Len(cmd), inEdit)
       IN  Commit([w EXCEPT !.undo = SubSeq(undoStack, 1, Len(undoStack) - 1),
                            !.redo = Append(redoStack, cmd)])
    /\ last' = Obs("undo", TRUE)
    /\ UNCHANGED <<scenes, inEdit, dialog, pendingSave, puXY, nextId>>

\* if (graph.canRedo()) graph.redo()   App.jsx 740-742
Redo ==
    /\ Tick
    /\ CanvasUsable
    /\ Len(redoStack) > 0
    /\ LET cmd == redoStack[Len(redoStack)]
           w   == ApplyBatch(W, cmd, 1, inEdit)
       IN  Commit([w EXCEPT !.redo = SubSeq(redoStack, 1, Len(redoStack) - 1),
                            !.undo = Append(undoStack, cmd)])
    /\ last' = Obs("redo", TRUE)
    /\ UNCHANGED <<scenes, inEdit, dialog, pendingSave, puXY, nextId>>

\* clearGraph: nothing on an empty canvas, else a confirm().  App.jsx 352-365
ClearGraph ==
    /\ Tick
    /\ CanvasUsable
    /\ IF Len(nodes) + Len(edges) = 0
       THEN dialog' = dialog
       ELSE dialog' = [kind |-> "clear", scene |-> NullScene, id |-> NoId]
    /\ last' = Obs("reqClear", Len(nodes) + Len(edges) = 0)
    /\ UNCHANGED <<scenes, activeScene, edited, inEdit, nodes, edges, undoStack,
                   redoStack, pendingSave, puXY, nextId>>

\* onOk of the clear dialog: graph.clearCells(); setEdited(true).  App.jsx 360-363
ClearOk ==
    /\ Tick
    /\ dialog.kind = "clear"
    /\ Commit([Do(ClearCells(W, inEdit)) EXCEPT !.edited = TRUE])
    /\ dialog' = NoDialog
    /\ last' = Obs("clear", TRUE)
    /\ UNCHANGED <<scenes, inEdit, pendingSave, puXY, nextId>>

\* the scene name input.  App.jsx 686-691
SetName(v) ==
    /\ Tick
    /\ CanvasUsable
    /\ activeScene.name # v
    /\ activeScene' = [activeScene EXCEPT !.name = v]
    /\ edited' = TRUE
    /\ last' = Obs("name", TRUE)
    /\ UNCHANGED <<scenes, inEdit, nodes, edges, undoStack, redoStack, dialog,
                   pendingSave, puXY, nextId>>

----------------------------------------------------------------------------
(* Saving: App.jsx 450-527 *)

\* graph.getSuccessors(startNode): the nodes reached over outgoing edges, the
\* start node itself left out
Successors(es, start) ==
    LET RECURSIVE Grow(_)
        Grow(seen) ==
            LET more == {e[2] : e \in {f \in Range(es) : f[1] \in seen}} \ seen
            IN  IF more = {} THEN seen ELSE Grow(seen \cup more)
    IN  Grow({start}) \ {start}

HasWarningsNoStartRule(ns, es, root) ==
    IF root \notin NodeIds(ns) THEN FALSE
    ELSE Cardinality(Successors(es, root)) + 1 < Len(ns)

\* the start-stage and reachability rules: App.jsx 465-484
HasWarnings(ns, es, root) ==
    IF root \notin NodeIds(ns) THEN TRUE
    ELSE Cardinality(Successors(es, root)) + 1 < Len(ns)

\* the graph field written at save time: App.jsx 496-510
SerializeGraph(ns, es) ==
    [i \in 1..Len(ns) |->
        LET out == SelectSeq(es, LAMBDA e : e[1] = ns[i].id)
        IN  GEntry(ns[i].id, ns[i].x, ns[i].y, [j \in 1..Len(out) |-> out[j][2]])]

\* the scene handed to invoke('save_scene'): App.jsx 494-512
SavedScene(sc, ns, es) ==
    [sc EXCEPT !.graph = SerializeGraph(ns, es),
               !.has_warnings = HasWarnings(ns, es, sc.root)]

PersistsAnyName(sc, ed) == ed

PersistsWhenClean(sc, ed) == sc.name # ""

\* whether saveScene goes on to persist: App.jsx 453-464, 486-488
Persists(sc, ed) == sc.name # "" /\ ed

\* the Store button
SaveScene ==
    /\ Tick
    /\ CanvasUsable
    /\ Len(pendingSave) < MaxPending
    /\ IF Persists(activeScene, edited)
       THEN /\ pendingSave' = Append(pendingSave, SavedScene(activeScene, nodes, edges))
            /\ last' = Obs("save", TRUE)
       ELSE /\ pendingSave' = pendingSave
            /\ last' = Obs("save", FALSE)
    /\ UNCHANGED <<scenes, activeScene, edited, inEdit, nodes, edges, undoStack,
                   redoStack, dialog, puXY, nextId>>

UpsertAlwaysPush(list, sc) == Append(list, sc)

\* prev[w] = scene, or push: App.jsx 516-523
Upsert(list, sc) ==
    LET w == FindIndex(list, sc.id)
    IN  IF w = 0 THEN Append(list, sc) ELSE [list EXCEPT ![w] = sc]

\* the .then() of invoke('save_scene'): App.jsx 513-526
SaveAck ==
    /\ Tick
    /\ Len(pendingSave) > 0
    /\ LET scene == Head(pendingSave) IN
         /\ activeScene' = scene
         /\ scenes' = Upsert(scenes, scene)
    /\ edited' = FALSE
    /\ pendingSave' = Tail(pendingSave)
    /\ last' = Obs("saveAck", TRUE)
    /\ UNCHANGED <<inEdit, nodes, edges, undoStack, redoStack, dialog, puXY, nextId>>

----------------------------------------------------------------------------
(* Messages from the stage editor windows: App.jsx 208-324 *)

\* scenes.length === 0 || activeScene.id === sceneId ; reading .id of null throws
Target(sceneId) ==
    IF Len(scenes) = 0 THEN "active"
    ELSE IF ~HasActive THEN "throws"
    ELSE IF activeScene.id = sceneId THEN "active"
    ELSE "background"

\* remove_position(scene): App.jsx 259-269
RemovePosition(sc, idx) ==
    LET Drop(l) == [j \in 1..(Len(l) - 1) |-> IF j < idx + 1 THEN l[j] ELSE l[j + 1]]
    IN  [sc EXCEPT
           !.stages = [k \in 1..Len(sc.stages) |->
                         IF idx >= 0 /\ idx < Len(sc.stages[k].positions)
                         THEN [sc.stages[k] EXCEPT !.positions = Drop(@)]
                         ELSE sc.stages[k]],
           !.positions = IF idx >= 0 /\ idx < Len(@) THEN Drop(@) ELSE @,
           !.has_warnings = TRUE]

\* the on_position_remove listener: App.jsx 255-279
PositionRemove(sceneId, idx) ==
    /\ Tick
    /\ CASE Target(sceneId) = "active" /\ HasActive ->
              /\ activeScene' = RemovePosition(activeScene, idx)
              /\ scenes' = scenes
         [] Target(sceneId) = "background" ->
              LET i == FindIndex(scenes, sceneId) IN
              /\ scenes' = IF i = 0 THEN scenes
                           ELSE [scenes EXCEPT ![i] = RemovePosition(@, idx)]
              /\ activeScene' = activeScene
         [] OTHER -> UNCHANGED <<scenes, activeScene>>
    /\ last' = Obs("posRemove", Target(sceneId) # "throws" /\ (Target(sceneId) = "active" => HasActive))
    /\ UNCHANGED <<edited, inEdit, nodes, edges, undoStack, redoStack, dialog,
                   pendingSave, puXY, nextId>>

AddPositionSceneOnly(sc, id0) ==
    [sc EXCEPT !.positions = Append(@, id0), !.has_warnings = TRUE]

\* add_position(scene): the scene's position is minted first, then one
\* placeholder per stage.  App.jsx 284-292
AddPosition(sc, id0) ==
    [sc EXCEPT
       !.stages = [k \in 1..Len(sc.stages) |->
                     [sc.stages[k] EXCEPT !.positions = Append(@, id0 + k)]],
       !.positions = Append(@, id0),
       !.has_warnings = TRUE]

\* the on_position_add listener: App.jsx 280-303
PositionAdd(sceneId) ==
    /\ Tick
    /\ nextId < FirstPositionId + MaxIds
    /\ CASE Target(sceneId) = "active" /\ HasActive ->
              /\ activeScene' = AddPosition(activeScene, nextId)
              /\ scenes' = scenes
              /\ nextId' = nextId + 1 + Len(activeScene.stages)
         [] Target(sceneId) = "background" ->
              LET i == FindIndex(scenes, sceneId) IN
              /\ scenes' = IF i = 0 THEN scenes
                           ELSE [scenes EXCEPT ![i] = AddPosition(@, nextId)]
              /\ activeScene' = activeScene
              /\ nextId' = IF i = 0 THEN nextId ELSE nextId + 1 + Len(scenes[i].stages)
         [] OTHER -> UNCHANGED <<scenes, activeScene, nextId>>
    /\ last' = Obs("posAdd", Target(sceneId) # "throws" /\ (Target(sceneId) = "active" => HasActive))
    /\ UNCHANGED <<edited, inEdit, nodes, edges, undoStack, redoStack, dialog,
                   pendingSave, puXY>>

\* the positions a stage editor sends with a stage: the scene's positions as the
\* editor knows them (stale: it missed the last one), and as many for the stage
Hole == -1
EditorId == 0
EditorPositions(sc, stale) ==
    IF stale THEN SubSeq(sc.positions, 1, Len(sc.positions) - 1) ELSE sc.positions
EditorStage(id, poss) == Stage(id, [j \in 1..Len(poss) |-> EditorId])

\* the else branch of on_stage_saved looks the scene up with
\* scenes.findIndex(it => it.id === sceneId); the payload was destructured as
\* { scene, positions, stage }, so sceneId is not defined and the callback throws
\* on the first element: the listener ends there.  App.jsx 221-228
StageSaveBackground(list, sceneId, stage, poss) == list

StageSaveActiveNoPromote(w, stage, poss, guard) ==
    LET w1 == IF stage.id \in NodeIds(w.nodes) THEN w
              ELSE AddStageToGraph(w, <<StartX, StartY>>, stage.id, guard).w
        w2 == UpdateNodeProps(w1, stage.id, w.scene.root)
        k  == FindIndex(w.scene.stages, stage.id)
    IN  IF w.scene.id = NoId THEN w2
        ELSE IF k = 0
        THEN [w2 EXCEPT !.scene.stages = Append(@, stage),
                        !.scene.positions = poss,
                        !.edited = TRUE]
        ELSE [w2 EXCEPT !.scene.stages[k] = stage,
                        !.scene.positions = poss,
                        !.edited = TRUE]

\* the active branch of on_stage_saved: App.jsx 215-220, 229-248
StageSaveActive(w, stage, poss, guard) ==
    LET w1 == IF stage.id \in NodeIds(w.nodes) THEN w
              ELSE AddStageToGraph(w, <<StartX, StartY>>, stage.id, guard).w
        w2 == UpdateNodeProps(w1, stage.id, w.scene.root)
        k  == FindIndex(w.scene.stages, stage.id)
    IN  IF w.scene.id = NoId THEN w2    \* structuredClone(null).stages throws
        ELSE IF k = 0
        THEN LET first == Len(w.scene.stages) = 0
                 w3    == IF first THEN Do(SetIsStart(w2, stage.id, TRUE)) ELSE w2
             IN  [w3 EXCEPT !.scene.stages = Append(@, stage),
                            !.scene.root = IF first THEN stage.id ELSE @,
                            !.scene.positions = poss,
                            !.edited = TRUE]
        ELSE [w2 EXCEPT !.scene.stages[k] = stage,
                        !.scene.positions = poss,
                        !.edited = TRUE]

\* the on_stage_saved listener: App.jsx 210-254
StageSaved(sceneId, stId, stale) ==
    /\ Tick
    /\ stale => Len(activeScene.positions) > 0
    /\ LET poss  == EditorPositions(activeScene, stale)
           stage == EditorStage(stId, poss)
       IN  CASE Target(sceneId) = "active" ->
                  /\ Commit(StageSaveActive(W, stage, poss, inEdit))
                  /\ scenes' = scenes
                  /\ last' = Obs("stageSaved", HasActive)
             [] Target(sceneId) = "background" ->
                  /\ scenes' = StageSaveBackground(scenes, sceneId, stage, poss)
                  /\ last' = Obs("stageSaved", FALSE)
                  /\ UNCHANGED <<activeScene, edited, nodes, edges, undoStack, redoStack>>
             [] OTHER ->
                  /\ last' = Obs("stageSaved", FALSE)
                  /\ UNCHANGED <<scenes, activeScene, edited, nodes, edges, undoStack,
                                 redoStack>>
    /\ UNCHANGED <<inEdit, dialog, pendingSave, puXY, nextId>>

\* draft.positions[positionIdx] = newPosition on a JS array: App.jsx 310-314
AssignAt(l, idx, v) ==
    IF idx < 0 THEN l
    ELSE [j \in 1..(IF idx + 1 > Len(l) THEN idx + 1 ELSE Len(l)) |->
            IF j = idx + 1 THEN v ELSE IF j <= Len(l) THEN l[j] ELSE Hole]

\* the on_position_change listener: App.jsx 304-316
PositionChange(sceneId, stageId, idx) ==
    /\ Tick
    /\ nextId < FirstPositionId + MaxIds
    /\ IF stageId # 0 /\ Target(sceneId) = "active" /\ HasActive
       THEN /\ activeScene' = [activeScene EXCEPT !.positions = AssignAt(@, idx, nextId)]
            /\ nextId' = nextId + 1
            /\ last' = Obs("posChange", TRUE)
       ELSE /\ last' = Obs("posChange", FALSE)
            /\ UNCHANGED <<activeScene, nextId>>
    /\ UNCHANGED <<scenes, edited, inEdit, nodes, edges, undoStack, redoStack, dialog,
                   pendingSave, puXY>>

\* tags, furniture, private flag, a position edited in the bottom panel: the
\* payload is not modelled, the handlers all end in setEdited(true).
\* App.jsx 874-879, 908-1059, 1107-1121
FieldEdit ==
    /\ Tick
    /\ CanvasUsable
    /\ edited' = TRUE
    /\ last' = Obs("field", TRUE)
    /\ UNCHANGED <<scenes, activeScene, inEdit, nodes, edges, undoStack, redoStack,
                   dialog, pendingSave, puXY, nextId>>

\* the sider menu entry "Delete": a confirm() whose onOk closes over the
\* activeScene of the render that opened it.  App.jsx 563-584
SelectDelete(i) ==
    /\ Tick
    /\ NoModal
    /\ i \in 1..Len(scenes)
    /\ dialog' = [kind |-> "delete", scene |-> activeScene, id |-> scenes[i].id]
    /\ last' = Obs("reqDelete", TRUE)
    /\ UNCHANGED <<scenes, activeScene, edited, inEdit, nodes, edges, undoStack,
                   redoStack, pendingSave, puXY, nextId>>

\* onOk of the delete dialog: App.jsx 569-580
DeleteOk ==
    /\ Tick
    /\ dialog.kind = "delete"
    /\ scenes' = SelectSeq(scenes, LAMBDA sc : sc.id # dialog.id)
    /\ IF dialog.scene.id # NoId /\ dialog.scene.id = dialog.id
       THEN activeScene' = NullScene /\ edited' = FALSE
       ELSE UNCHANGED <<activeScene, edited>>
    /\ dialog' = NoDialog
    /\ last' = Obs("delete", TRUE)
    /\ UNCHANGED <<inEdit, nodes, edges, undoStack, redoStack, pendingSave, puXY, nextId>>

Next ==
    \/ \E p \in Projects : OnProjectUpdate(p)
    \/ \E i \in 1..2 : SelectEdit(i)
    \/ \E id \in SceneIds : SelectAdd(id)
    \/ SwitchOk
    \/ DialogCancel
    \/ \E id \in StageIds : UserRemoveNode(id)
    \/ \E s, d \in StageIds : UserConnect(s, d)
    \/ \E s, d \in StageIds : UserRemoveEdge(s, d)
    \/ \E id \in StageIds : UserMove(id)
    \/ \E id \in StageIds : MarkRoot(id)
    \/ Undo
    \/ Redo
    \/ ClearGraph
    \/ ClearOk
    \/ \E v \in {"", "n"} : SetName(v)
    \/ SaveScene
    \/ SaveAck
    \/ \E id \in SceneIds, idx \in -1..MaxIdx : PositionRemove(id, idx)
    \/ \E id \in SceneIds : PositionAdd(id)
    \/ \E id \in SceneIds, st \in StageIds, stale \in BOOLEAN : StageSaved(id, st, stale)
    \/ \E id \in SceneIds, o \in {0, 1}, idx \in -1..MaxIdx : PositionChange(id, o, idx)
    \/ FieldEdit
    \/ \E i \in 1..2 : SelectDelete(i)
    \/ DeleteOk

Spec == Init /\ [][Next]_vars

\* The same handlers explored deeper, over fewer of the inputs: one project, the
\* removal of one node and its undo, saving, and switching between the scenes.
InitDeep == InitBase /\ limit = MaxDeep

NextSwitch ==
    \/ OnProjectUpdate(<<SceneS1, SceneS2>>)
    \/ UserRemoveNode("B")
    \/ Undo
    \/ SaveScene
    \/ SaveAck
    \/ \E i \in 1..2 : SelectEdit(i)
    \/ FieldEdit
    \/ SwitchOk
    \/ DialogCancel

SpecSwitch == InitDeep /\ [][NextSwitch]_vars

InitMid == InitBase /\ limit = MaxMid

\* the canvas edits that touch the start flag, and their undo and redo
NextCanvas ==
    \/ OnProjectUpdate(<<SceneS1, SceneS2>>)
    \/ \E id \in StageIds : UserRemoveNode(id)
    \/ \E id \in StageIds : MarkRoot(id)
    \/ Undo
    \/ Redo

SpecCanvas == InitMid /\ [][NextCanvas]_vars

\* position-added and position-removed messages, to the active scene, to a
\* background scene and to an unknown one, on the scenes a project brings
NextPos ==
    \/ \E p \in Projects : OnProjectUpdate(p)
    \/ \E i \in 1..2 : SelectEdit(i)
    \/ \E id \in SceneIds, idx \in -1..MaxIdx : PositionRemove(id, idx)
    \/ \E id \in SceneIds : PositionAdd(id)

SpecPos == InitMid /\ [][NextPos]_vars

\* the position messages after scenes were selected and deleted: the state
\* with scenes in the list and no active scene is reached by deleting the
\* active scene
NextInbox ==
    \/ OnProjectUpdate(<<SceneS1, SceneS2>>)
    \/ \E i \in 1..2 : SelectEdit(i)
    \/ \E i \in 1..2 : SelectDelete(i)
    \/ DeleteOk
    \/ \E id \in SceneIds, idx \in -1..MaxIdx : PositionRemove(id, idx)
    \/ \E id \in SceneIds : PositionAdd(id)

SpecInbox == InitMid /\ [][NextInbox]_vars

----------------------------------------------------------------------------
(* Claims *)

Activated == last.op \in {"activate", "project"} /\ last.ok /\ HasActive

\* C1: once the activation of a scene has completed, the canvas has as many nodes
\* as the scene has stages, and its edges are exactly the pairs (s, d) with d in
\* graph[s].dest.
C1_ActivationMirrorsScene ==
    Activated =>
        /\ Len(nodes) = Len(activeScene.stages)
        /\ Range(edges) =
             UNION {{<<activeScene.graph[k].key, d>> : d \in Range(activeScene.graph[k].dest)} :
                        k \in 1..Len(activeScene.graph)}

SwitchRequested ==
    \/ \E i \in 1..2 : SelectEdit(i)
    \/ \E id \in SceneIds : SelectAdd(id)

\* C2: a scene switch requested while Dirty and not confirmed (cancelled, or not
\* answered) leaves the canvas, the active scene, the scene list, the dirty flag
\* and the guard flag unchanged.
C2_UnconfirmedSwitchChangesNothing ==
    [][(edited /\ (SwitchRequested \/ (dialog.kind = "switch" /\ DialogCancel)))
          => UNCHANGED <<nodes, edges, activeScene, scenes, edited, inEdit>>]_vars

SaveFrame == UNCHANGED <<pendingSave, scenes, activeScene, edited>>

\* C3: save() on an active scene with an empty name makes no persistence call,
\* changes neither the scene list nor the active scene, and leaves the dirty
\* flag as it was.
C3_EmptyNameSaveDoesNothing ==
    [][(SaveScene /\ activeScene.name = "") => SaveFrame]_vars

C3_Witness ==
    /\ last = Obs("save", FALSE)
    /\ activeScene.name = ""
    /\ edited
    /\ pendingSave = <<>>

\* C4: when the controller is not Dirty, save() is a no-op whatever validation
\* finds: no persistence call, and the active scene (has_warnings included), the
\* scene list and the dirty flag are unchanged.
C4_CleanSaveDoesNothing ==
    [][(SaveScene /\ ~edited) => SaveFrame]_vars

C4_Witness ==
    /\ last = Obs("save", FALSE)
    /\ ~edited
    /\ activeScene.name # ""
    /\ HasWarnings(nodes, edges, activeScene.root)
    /\ ~activeScene.has_warnings
    /\ pendingSave = <<>>

Parallel(sc) ==
    \A k \in 1..Len(sc.stages) : Len(sc.stages[k].positions) = Len(sc.positions)

\* C5: from scenes whose stages' positions lists are as long as scene.positions,
\* any sequence of position-added and position-removed messages (any index, to
\* the active or to a background scene) keeps every stage's list as long as its
\* scene's positions.
C5_PositionsStayParallel ==
    /\ Parallel(activeScene)
    /\ \A i \in 1..Len(scenes) : Parallel(scenes[i])

C5_Witness ==
    /\ last = Obs("posRemove", TRUE)
    /\ activeScene.id = "s1"
    /\ activeScene.positions = <<FirstPositionId>>
    /\ \E i \in 1..Len(scenes) : scenes[i].id = "s2" /\ Len(scenes[i].positions) = 1

StartFlagged == {i \in 1..Len(nodes) : nodes[i].isStart}

\* C6: in every reachable state at most one canvas node of the active scene is
\* flagged as start, and a node is flagged exactly when its id is the active
\* scene's root.
C6_OneStartMirrorsRoot ==
    HasActive =>
        /\ Cardinality(StartFlagged) <= 1
        /\ \A i \in 1..Len(nodes) : nodes[i].isStart <=> nodes[i].id = activeScene.root

\* C7: in every reachable state the active scene's root is null or the id of a
\* stage in the active scene's stages.
C7_RootIsAStage ==
    HasActive => activeScene.root = NoId \/ activeScene.root \in StageIdsOf(activeScene)

\* C8: marking the same stage as start twice in a row is idempotent: the second
\* mark-start changes nothing, exactly one node is flagged as start and root is
\* that stage's id.
C8_MarkStartTwice ==
    [][\A id \in StageIds :
          (last.op = "markRoot" /\ activeScene.root = id /\ MarkRoot(id)) =>
             /\ UNCHANGED <<nodes, edges, activeScene, scenes, edited, inEdit>>
             /\ Cardinality({i \in 1..Len(nodes') : nodes'[i].isStart}) = 1
             /\ activeScene'.root = id]_vars

\* reachability over the canvas edges, as the transitive closure of the edge relation
RECURSIVE Closure(_, _)
Closure(R, n) ==
    IF n = 0 THEN R
    ELSE Closure(R \cup {<<p[1][1], p[2][2]>> : p \in {q \in R \X R : q[1][2] = q[2][1]}}, n - 1)

ReachableStages(root) ==
    {root} \cup {p[2] : p \in {q \in Closure(Range(edges), Cardinality(StageIds)) : q[1] = root}}

Handed == pendingSave[Len(pendingSave)]

\* C9: for a scene whose start stage is present and one of whose stages is not
\* reachable from it over outgoing edges, a save that persists hands over the
\* scene with has_warnings = true.
C9_UnreachableStageWarns ==
    (/\ last = Obs("save", TRUE)
     /\ activeScene.root \in StageIdsOf(activeScene)
     /\ StageIdsOf(activeScene) \ ReachableStages(activeScene.root) # {})
        => Handed.has_warnings

\* C10: for a scene with a designated start stage from which every stage is
\* reachable (cycles included), the saved scene has has_warnings = false.
C10_AllReachableNoWarning ==
    (/\ last = Obs("save", TRUE)
     /\ activeScene.root \in StageIdsOf(activeScene)
     /\ StageIdsOf(activeScene) \subseteq ReachableStages(activeScene.root))
        => ~Handed.has_warnings

\* C11: only the name rule blocks persistence: every save() taken while Dirty with
\* a non-empty name hands one scene to save_scene, whatever the start-stage and
\* reachability rules find; when no start stage is designated (root is null) the
\* scene handed over has has_warnings = true.
C11_OnlyNameBlocks ==
    [][(SaveScene /\ edited /\ activeScene.name # "") =>
          /\ Len(pendingSave') = Len(pendingSave) + 1
          /\ pendingSave'[Len(pendingSave')].id = activeScene.id
          /\ activeScene.root = NoId => pendingSave'[Len(pendingSave')].has_warnings]_vars

C11_Witness ==
    /\ last = Obs("save", TRUE)
    /\ activeScene.root = NoId
    /\ Len(nodes) > 0
    /\ Handed.id = activeScene.id
    /\ Handed.has_warnings

\* C12: a stage-saved message whose scene id is that of a background scene of the
\* scene list patches that scene (the stage replaced if its id is among the
\* scene's stages, appended otherwise; positions replaced by the message's) and
\* leaves the canvas, the active scene and the dirty flag unchanged.
C12_BackgroundStagePatched ==
    [][\A id \in SceneIds, st \in StageIds, stale \in BOOLEAN :
          (/\ HasActive /\ activeScene.id # id /\ FindIndex(scenes, id) # 0
           /\ StageSaved(id, st, stale)) =>
             LET i     == FindIndex(scenes, id)
                 poss  == EditorPositions(activeScene, stale)
                 stage == EditorStage(st, poss)
                 old   == FindIndex(scenes[i].stages, st)
             IN  /\ scenes' = [scenes EXCEPT
                                 ![i].stages = IF old = 0 THEN Append(@, stage)
                                               ELSE [@ EXCEPT ![old] = stage],
                                 ![i].positions = poss]
                 /\ UNCHANGED <<nodes, edges, activeScene, edited>>]_vars

NodesWithId(ns, id) == {i \in 1..Len(ns) : ns[i].id = id}
StagesWithId(sc, id) == {k \in 1..Len(sc.stages) : sc.stages[k].id = id}

\* C13: a stage-saved message for the active scene leaves exactly one canvas node
\* and exactly one stage entry with the stage's id (an existing node or entry is
\* reused, none is duplicated), marks the controller Dirty; when the scene had
\* no stages the stage becomes the start stage (root is its id, its node is
\* flagged), otherwise root is unchanged.
C13_ActiveStageSaved ==
    [][\A id \in SceneIds, st \in StageIds, stale \in BOOLEAN :
          (/\ HasActive /\ activeScene.id = id
           /\ StageSaved(id, st, stale)) =>
             /\ Cardinality(NodesWithId(nodes', st)) = 1
             /\ Cardinality(StagesWithId(activeScene', st)) = 1
             /\ st \in NodeIds(nodes) => Len(nodes') = Len(nodes)
             /\ st \in StageIdsOf(activeScene) =>
                    Len(activeScene'.stages) = Len(activeScene.stages)
             /\ EditorStage(st, EditorPositions(activeScene, stale)) \in Range(activeScene'.stages)
             /\ edited'
             /\ IF Len(activeScene.stages) = 0
                THEN /\ activeScene'.root = st
                     /\ nodes'[FindIndex(nodes', st)].isStart
                ELSE activeScene'.root = activeScene.root]_vars

C13_Witness ==
    /\ last = Obs("stageSaved", TRUE)
    /\ Len(scenes) > 0
    /\ activeScene.id = "s3"
    /\ activeScene.root = "B"
    /\ StageIdsOf(activeScene) = {"B"}
    /\ NodeIds(nodes) = {"B"}
    /\ nodes[1].isStart
    /\ edited

UnknownScene(id) == activeScene.id # id /\ FindIndex(scenes, id) = 0

MessageFor(id) ==
    \/ \E st \in StageIds, stale \in BOOLEAN : StageSaved(id, st, stale)
    \/ \E idx \in -1..MaxIdx : PositionRemove(id, idx)
    \/ PositionAdd(id)
    \/ \E o \in {0, 1}, idx \in -1..MaxIdx : PositionChange(id, o, idx)

\* C14: a stage-saved, position-removed, position-added or position-changed
\* message whose scene id is neither the active scene's nor that of a scene in
\* the list is ignored: the active scene, the scene list, the canvas and the
\* dirty flag are unchanged, in every state, the empty scene list included.
C14_UnknownSceneIgnored ==
    [][\A id \in SceneIds :
          (UnknownScene(id) /\ MessageFor(id)) =>
              UNCHANGED <<activeScene, scenes, nodes, edges, edited>>]_vars

\* the list l without its element of (zero-based) index i
RemoveAt(l, i) == SubSeq(l, 1, i) \o SubSeq(l, i + 2, Len(l))

ValidIn(sc, i) ==
    /\ i >= 0 /\ i < Len(sc.positions)
    /\ \A k \in 1..Len(sc.stages) : i < Len(sc.stages[k].positions)

WithoutPosition(sc, i) ==
    [sc EXCEPT !.positions = RemoveAt(@, i),
               !.stages = [k \in 1..Len(sc.stages) |->
                             [sc.stages[k] EXCEPT !.positions = RemoveAt(@, i)]],
               !.has_warnings = TRUE]

\* C15: a position-removed message with an index valid for the target scene (the
\* active scene if the id is its id, else the scene of the list with that id)
\* removes exactly that element from scene.positions and from every stage's
\* list, keeps the order of the others, sets has_warnings on that scene and
\* changes no other scene.
C15_PositionRemoved ==
    [][\A id \in SceneIds, idx \in -1..MaxIdx :
          PositionRemove(id, idx) =>
             /\ (activeScene.id = id /\ ValidIn(activeScene, idx)) =>
                    /\ activeScene' = WithoutPosition(activeScene, idx)
                    /\ scenes' = scenes
             /\ (activeScene.id # id /\ FindIndex(scenes, id) # 0
                    /\ ValidIn(scenes[FindIndex(scenes, id)], idx)) =>
                    /\ scenes' = [scenes EXCEPT ![FindIndex(scenes, id)] =
                                                  WithoutPosition(@, idx)]
                    /\ activeScene' = activeScene]_vars

PositionIds(sc) ==
    Range(sc.positions) \cup UNION {Range(sc.stages[k].positions) : k \in 1..Len(sc.stages)}

\* l2 is l with one element, not in old, appended
Appended(l, l2, old) ==
    /\ Len(l2) = Len(l) + 1
    /\ SubSeq(l2, 1, Len(l)) = l
    /\ l2[Len(l2)] \notin old

PositionAppended(sc, sc2) ==
    /\ Appended(sc.positions, sc2.positions, PositionIds(sc))
    /\ Len(sc2.stages) = Len(sc.stages)
    /\ \A k \in 1..Len(sc.stages) :
          /\ Appended(sc.stages[k].positions, sc2.stages[k].positions, PositionIds(sc))
          /\ sc2.stages[k].id = sc.stages[k].id
    /\ Cardinality(PositionIds(sc2)) = Cardinality(PositionIds(sc)) + 1 + Len(sc.stages)

\* C16: each position-added message appends exactly one position to the end of
\* the target scene's positions and one placeholder to the end of every stage's
\* list, each with a new id that no position of the scene had and no two alike;
\* so the same message delivered twice adds two positions with distinct ids.
C16_PositionAdded ==
    [][\A id \in SceneIds :
          PositionAdd(id) =>
             /\ activeScene.id = id =>
                    /\ PositionAppended(activeScene, activeScene')
                    /\ scenes' = scenes
             /\ (activeScene.id # id /\ FindIndex(scenes, id) # 0) =>
                    /\ Len(scenes') = Len(scenes)
                    /\ PositionAppended(scenes[FindIndex(scenes, id)],
                                        scenes'[FindIndex(scenes, id)])
                    /\ activeScene' = activeScene]_vars

\* C17: a position-changed message changes a scene only if its origin is not the
\* scene-level editor (stageId # 0) and its scene id is the active scene's id;
\* in every other case (self-echo, background scene, unknown scene) no scene is
\* modified.
C17_PositionChangeOnlyActive ==
    [][\A id \in SceneIds, o \in {0, 1}, idx \in -1..MaxIdx :
          (PositionChange(id, o, idx) /\ ~(o # 0 /\ activeScene.id = id)) =>
              UNCHANGED <<activeScene, scenes>>]_vars

\* C18: a project-replace message, in any state, Dirty included, and with no
\* confirmation asked, replaces the scene list by the scenes of the payload,
\* leaves the controller not Dirty and makes the first scene of the payload the
\* active scene, or no scene active when the payload is empty.
C18_ProjectReplace ==
    [][\A p \in Projects :
          OnProjectUpdate(p) =>
             /\ scenes' = p
             /\ ~edited'
             /\ dialog' = dialog
             /\ activeScene' = IF Len(p) > 0 THEN p[1] ELSE NullScene]_vars

\* the project arrived while the scene was Dirty (a discard confirmation of an
\* earlier switch request is still open) and took effect at once
C18_Witness ==
    /\ last = Obs("project", TRUE)
    /\ dialog.kind = "switch"
    /\ scenes = <<SceneS1, SceneS2>>
    /\ activeScene = SceneS1
    /\ ~edited

\* what a rebuild that ran to its end leaves: the guard clear, the controller
\* not Dirty, the activated scene with all its stages
RebuildDone(newscene) ==
    /\ last'.ok
    /\ ~inEdit'
    /\ ~edited'
    /\ activeScene' = newscene

\* C19: a bulk rebuild runs under the guard flag: no canvas event it produces
\* (cells cleared, nodes added, edges added) marks the scene Dirty or removes a
\* stage of the activated scene, and every rebuild that starts completes, with
\* the guard flag clear and the controller not Dirty afterwards.
C19_RebuildCompletes ==
    [][/\ \A i \in 1..2 : (SelectEdit(i) /\ (inEdit \/ ~edited)) => RebuildDone(scenes[i])
       /\ \A id \in SceneIds : (SelectAdd(id) /\ (inEdit \/ ~edited)) => RebuildDone(BlankScene(id))
       /\ SwitchOk => RebuildDone(dialog.scene)
       /\ \A p \in Projects : (OnProjectUpdate(p) /\ Len(p) > 0) => RebuildDone(p[1])]_vars

\* C20: after the activation of a scene every stage with a layout entry
\* graph[id] = {x, y, ..} is a node at exactly the stored coordinates.
C20_StoredCoordinates ==
    Activated =>
        \A k \in 1..Len(activeScene.graph) :
            LET g == activeScene.graph[k] IN
            g.key \in StageIdsOf(activeScene) =>
                /\ g.key \in NodeIds(nodes)
                /\ nodes[FindIndex(nodes, g.key)].x = g.x
                /\ nodes[FindIndex(nodes, g.key)].y = g.y

\* the scene a save builds reproduces S: name, root, stages and positions, and
\* every stored layout entry of S with its dest list and its coordinates
Reproduces(saved, S) ==
    /\ saved.id = S.id
    /\ saved.name = S.name
    /\ saved.root = S.root
    /\ saved.stages = S.stages
    /\ saved.positions = S.positions
    /\ \A k \in 1..Len(S.graph) :
          \E j \in 1..Len(saved.graph) :
             /\ saved.graph[j].key = S.graph[k].key
             /\ saved.graph[j].dest = S.graph[k].dest
             /\ saved.graph[j].x = S.graph[k].x
             /\ saved.graph[j].y = S.graph[k].y

\* C21: round trip: right after the activation of a scene S, with no edit in
\* between, the scene a save builds from the canvas equals S (name, root,
\* stages, positions, graph entries with the same dest lists and coordinates),
\* the coordinates of stages without a stored layout excepted.
C21_RoundTrip ==
    (Activated /\ ~edited) => Reproduces(SavedScene(activeScene, nodes, edges), activeScene)

IdsOfScenes(list) == {list[i].id : i \in 1..Len(list)}

\* list with sc in the place of the entry of the same id, or at the end
Replaced(list, sc) ==
    IF sc.id \in IdsOfScenes(list)
    THEN [i \in 1..Len(list) |-> IF list[i].id = sc.id THEN sc ELSE list[i]]
    ELSE list \o <<sc>>

\* C22: a save that persists (Dirty, name non-empty) changes neither the scene
\* list nor the dirty flag; the acknowledgement puts the saved scene in the place
\* of the entry with its id, or at the end of the list if there is none, and
\* leaves the controller not Dirty; the scene list never holds two entries with
\* the same id.
C22_SaveThenAcknowledge ==
    /\ [][/\ (SaveScene /\ edited /\ activeScene.name # "") =>
                 (UNCHANGED <<scenes, edited>> /\ Len(pendingSave') = Len(pendingSave) + 1)
          /\ SaveAck => /\ scenes' = Replaced(scenes, Head(pendingSave))
                        /\ ~edited']_vars
    /\ [](Cardinality(IdsOfScenes(scenes)) = Len(scenes))

C22_Witness ==
    /\ last = Obs("saveAck", TRUE)
    /\ Len(scenes) = 2
    /\ scenes[1] = activeScene
    /\ scenes[1] # SceneS1
    /\ scenes[1].id = "s1"
    /\ pendingSave = <<>>
    /\ ~edited

Untouched == UNCHANGED <<scenes, activeScene, nodes, edges, edited>>

\* C23: delete-scene and clear-canvas are gated by a confirmation: the request
\* and a declined confirmation leave the scene list, the active scene, the canvas
\* and the dirty flag unchanged; clear-canvas on an empty canvas does nothing
\* and asks nothing; a confirmed delete removes exactly the scene with that id
\* and, only if that scene is the active scene, leaves no active scene and a
\* clear dirty flag, else leaves the active scene and the dirty flag unchanged.
C23_DeleteAndClearGated ==
    [][/\ \A i \in 1..2 : SelectDelete(i) => (Untouched /\ dialog'.kind = "delete")
       /\ ClearGraph =>
             /\ Untouched
             /\ IF Len(nodes) + Len(edges) = 0 THEN dialog' = dialog
                ELSE dialog'.kind = "clear"
       /\ (DialogCancel /\ dialog.kind \in {"delete", "clear"}) => Untouched
       /\ DeleteOk =>
             /\ scenes' = SelectSeq(scenes, LAMBDA sc : sc.id # dialog.id)
             /\ UNCHANGED <<nodes, edges>>
             /\ IF activeScene.id = dialog.id
                THEN activeScene' = NullScene /\ ~edited'
                ELSE UNCHANGED <<activeScene, edited>>]_vars

\* the structure of the canvas: which nodes, where, and which edges
Shape(ns, es) == <<[i \in 1..Len(ns) |-> <<ns[i].id, ns[i].x, ns[i].y>>], es>>

UserMutation ==
    \/ \E id \in StageIds : UserRemoveNode(id) \/ UserMove(id)
    \/ \E s, d \in StageIds : UserConnect(s, d) \/ UserRemoveEdge(s, d)
    \/ ClearOk
    \/ \E v \in {"", "n"} : SetName(v)
    \/ FieldEdit
    \/ \E id \in SceneIds, st \in StageIds, stale \in BOOLEAN :
          StageSaved(id, st, stale) /\ Shape(nodes', edges') # Shape(nodes, edges)

\* C24: outside a guarded rebuild every structural mutation of the canvas (node
\* added, removed or moved, edge connected or removed, canvas cleared, and the
\* same mutations when undo or redo performs them) and every field edit leaves
\* the controller Dirty.
C24_MutationsMarkDirty ==
    [][~inEdit =>
          /\ UserMutation => edited'
          /\ ((Undo \/ Redo) /\ Shape(nodes', edges') # Shape(nodes, edges)) => edited']_vars

KnownScenes == {activeScene} \cup Range(scenes)

\* C25: in every reachable state, under all operations (stage-saved and
\* position-changed included), each stage's positions list of the active scene
\* and of every scene of the list is as long as the scene's positions list.
C25_ParallelUnderAllOperations ==
    \A sc \in KnownScenes :
        \A k \in 1..Len(sc.stages) : Len(sc.stages[k].positions) = Len(sc.positions)

\* C26: the warning a position removal records on the scene (has_warnings set)
\* does not block the save and is carried by it: the save that follows the
\* removal hands the scene over with has_warnings = true.
C26_RemovalWarningSaved ==
    [][(/\ SaveScene
        /\ last = Obs("posRemove", TRUE)
        /\ activeScene.has_warnings
        /\ edited /\ activeScene.name # "") =>
            /\ Len(pendingSave') = Len(pendingSave) + 1
            /\ pendingSave'[Len(pendingSave')].has_warnings]_vars

\* the k-th cell of a grid of spacing 200 that starts at (40, 40) and wraps to
\* x = 40 on the next row when x would exceed the canvas width minus 200
GridColumns == (ClientWidth - 200 - 40) \div 200 + 1
GridCell(k) == <<40 + 200 * ((k - 1) % GridColumns), 40 + 200 * ((k - 1) \div GridColumns)>>

XY(n) == <<n.x, n.y>>

\* C27: auto-placement puts the nodes on a grid of spacing 200 that starts at
\* (40, 40), left to right, wrapping to x = 40 on the next row; no two
\* auto-placed nodes of a scene get the same coordinates, be they added in one
\* rebuild or by separate stage-saved messages.
C27_AutoPlacementGrid ==
    /\ [](Activated => \A k \in 1..Len(nodes) : XY(nodes[k]) = GridCell(k))
    /\ [][\A id \in SceneIds, st \in StageIds, stale \in BOOLEAN :
            (StageSaved(id, st, stale) /\ st \notin NodeIds(nodes) /\ st \in NodeIds(nodes')) =>
                XY(nodes'[FindIndex(nodes', st)]) \notin {XY(nodes[k]) : k \in 1..Len(nodes)}]_vars

PositionMessage(id) ==
    \/ \E idx \in -1..MaxIdx : PositionRemove(id, idx)
    \/ PositionAdd(id)
    \/ \E o \in {0, 1}, idx \in -1..MaxIdx : PositionChange(id, o, idx)

\* C28: a position-added, position-removed or position-changed message that
\* changes the active scene leaves the controller Dirty, so that the change can
\* be saved and a scene switch asks for confirmation.
C28_PositionMessagesMarkDirty ==
    [][\A id \in SceneIds :
          (PositionMessage(id) /\ activeScene' # activeScene) => edited']_vars

\* the data of a scene a user or a message edits, the fields a save computes left out
SceneData(sc) == <<sc.id, sc.name, sc.root, sc.stages, sc.positions>>

\* C29: events between a save request and its acknowledgement are neither lost
\* nor misapplied: when the scene was edited after the request, the
\* acknowledgement leaves the controller Dirty and the edit in the active
\* scene; when another scene was activated in between, the acknowledgement
\* does not replace the active scene.
C29_AckKeepsLaterEvents ==
    [][SaveAck =>
          LET saved == Head(pendingSave) IN
          /\ activeScene.id # saved.id => activeScene' = activeScene
          /\ (activeScene.id = saved.id /\ SavedScene(activeScene, nodes, edges) # saved) =>
                 /\ edited'
                 /\ SceneData(activeScene') = SceneData(activeScene)]_vars

\* C30: whenever no rebuild is in progress the canvas node ids are the stage ids
\* of the active scene, after any sequence of node removals, undo, redo and
\* scene activations (removing a node and undoing the removal restores the
\* node and its stage).
C30_NodesMirrorStages ==
    (HasActive /\ ~inEdit) => NodeIds(nodes) = StageIdsOf(activeScene)

\* C31: a position-changed message never changes the length of scene.positions,
\* whatever its index, negative or at or past the current length included.
C31_PositionChangeKeepsLength ==
    [][\A id \in SceneIds, o \in {0, 1}, idx \in -1..MaxIdx :
          PositionChange(id, o, idx) =>
              Len(activeScene'.positions) = Len(activeScene.positions)]_vars

\* C32: the guard flag is set only while a rebuild executes: after every
\* activation attempt, one that aborts midway or follows an accepted discard
\* confirmation included, the guard flag is clear again.
C32_GuardClearBetweenHandlers ==
    ~inEdit

NoActiveButScenes == ~HasActive /\ Len(scenes) > 0

\* C33: with no active scene and a non-empty scene list, a position-added,
\* position-removed or stage-saved message with any scene id completes without
\* failure, and a position-added or position-removed message addressed to a
\* scene of the list is applied to that scene, the other scenes unchanged.
C33_MessagesWithoutActiveScene ==
    [][\A id \in SceneIds :
          NoActiveButScenes =>
             /\ ((\E idx \in -1..MaxIdx : PositionRemove(id, idx)) \/ PositionAdd(id)
                   \/ \E st \in StageIds, stale \in BOOLEAN : StageSaved(id, st, stale))
                    => last'.ok
             /\ (PositionAdd(id) /\ FindIndex(scenes, id) # 0) =>
                    /\ Len(scenes') = Len(scenes)
                    /\ \A i \in 1..Len(scenes) :
                          IF scenes[i].id = id
                          THEN Len(scenes'[i].positions) = Len(scenes[i].positions) + 1
                          ELSE scenes'[i] = scenes[i]
             /\ \A idx \in -1..MaxIdx :
                   (PositionRemove(id, idx) /\ FindIndex(scenes, id) # 0) =>
                       scenes' = [scenes EXCEPT ![FindIndex(scenes, id)] = RemovePosition(@, idx)]]_vars

====
